---- MODULE Spec2Model ----
(***************************************************************************)
(* ECG disease classifier (flask-backend): the signal-to-diagnosis         *)
(* pipeline of ecg_utils.py and app.py as a state machine, the server that *)
(* loads the artifacts and runs requests concurrently, and the upload      *)
(* handlers with their temporary files.                                    *)
(*                                                                         *)
(* Conventions                                                             *)
(*  - Sample indices are 0-based as in the Python code; a signal is a TLA+ *)
(*    sequence, so index p of the code is element p + 1 of the sequence.   *)
(*  - Sample values are exact integer multiples of 1e-6 (one "unit"), so   *)
(*    the validator's thresholds 1e-6 and 100 are the integers StdMin and  *)
(*    AmpMax.  Floating point rounding of the samples is not modelled.     *)
(*  - Confidences are integer multiples of 1e-6; values rounded to 4       *)
(*    decimals are integers in units of 1e-4, percentages rounded to 2     *)
(*    decimals are integers in units of 0.01.                              *)
(*  - scipy (butter/filtfilt, find_peaks), wfdb (gqrs_detect), the scaler  *)
(*    and the keras model are libraries and artifacts outside the          *)
(*    repository: they are modelled by the outcomes their interfaces allow.*)
(***************************************************************************)
EXTENDS Integers, Sequences, FiniteSets, TLC

VARIABLES
    pc,                  \* position of the request in process_ecg_file
    segment_length,      \* segment_length / expected_length argument
    continuous_samples,  \* len(continuous_ecg) after cleaning
    filtered_signal,     \* preprocess_ecg's result
    strategy,            \* the detection strategy that produced r_peaks
    r_peaks,             \* candidate peaks (detect_r_peaks, before filtering)
    valid_peaks,         \* detect_r_peaks' result
    raw_segments,        \* extract_heartbeat_segments' result
    validated_segments,  \* validate_segments' result
    heartbeat_segments,  \* segment_ecg_beats' result (normalized rows)
    model,               \* the loaded classifier (a process-wide artifact)
    batch_i,             \* loop variable i of the batched prediction loop
    calls,               \* history: number of rows of each model.predict call
    all_predictions,     \* predicted class of each row, in assembly order
    all_confidences,     \* confidence of each row, in assembly order
    result,              \* the dictionary process_ecg_file returns
    error,               \* the failure process_ecg_file raised
    stages               \* history: the pipeline stages run so far, in order

\* the process: the module globals of app.py and the requests being served
VARIABLES
    server,              \* "import" (app.py is being executed), "loaded",
                         \* "serving" or "crashed"
    load_count,          \* history: number of completed load_models() calls
    scaler,              \* the global scaler
    class_map,           \* the global class_mapping
    requests             \* the local variables of each request thread

\* the upload handlers predict_ecg and predict_ecg_batch, safe_file_cleanup
VARIABLES
    endpoint,            \* "predict", "predict_batch", or "none"
    files,               \* the uploaded file names, in upload order
    hpc,                 \* position of the handler
    file_i,              \* the file of the upload the handler is at (from 1)
    filepath,            \* filepath / filepath_batch; 0 is None
    disk,                \* the temporary files that exist
    created,             \* history: the temporary files created, in order
    raised,              \* the exception in flight, "none" if there is none
    max_retries,         \* safe_file_cleanup's max_retries
    attempt,             \* safe_file_cleanup's loop variable
    attempt_log,         \* history: outcome of each attempt of the call
    cleanups,            \* history: the safe_file_cleanup calls that returned
    results,             \* the list results of predict_ecg_batch
    response             \* the handler's response

pipelineVars ==
    <<pc, segment_length, continuous_samples, filtered_signal, strategy,
      r_peaks, valid_peaks, raw_segments, validated_segments,
      heartbeat_segments, batch_i, calls, all_predictions,
      all_confidences, result, error, stages>>

serverVars == <<server, load_count, scaler, class_map, requests>>

uploadVars ==
    <<endpoint, files, hpc, file_i, filepath, disk, created, raised,
      max_retries, attempt, attempt_log, cleanups, results, response>>

vars == <<pipelineVars, model, serverVars, uploadVars>>

-----------------------------------------------------------------------------
(* Program constants *)

\* sampling_rate=360: the default every caller in the repository uses
sampling_rate == 360

\* segment_length=250 passed by process_ecg_file
DefaultSegmentLength == 250

\* batch_size = 100 in process_ecg_file
batch_size == 100

\* signal.butter(4, ...): order of the band-pass filter
FilterOrder == 4

\* if np.std(segment) < 1e-6: in units of 1e-6
StdMin == 1

\* if np.max(np.abs(segment)) > 100: in units of 1e-6
AmpMax == 100000000

\* the non-finite sample values, encoded outside the finite range
PosInf == 20 * AmpMax
NegInf == 0 - PosInf
NaN == PosInf + 1

\* def safe_file_cleanup(filepath, max_retries=5, delay=0.1)
DefaultMaxRetries == 5

-----------------------------------------------------------------------------
(* Bounds of the model *)

\* most peaks the external detector returns in one call
MaxPeaks == 3

\* candidate peak positions lie on a grid of this step (plus the positions
\* next to the comparisons of the code, see Positions)
PosStep == 72

\* the longest signal; the other signal lengths are the ones the code's own
\* thresholds single out (see SignalLengths)
MaxLen == 600

\* number of classes of the classifier (size of class_mapping)
NumClasses == 3

\* most segments of a request in the batching specification
MaxSegments == 237

\* most votes in the aggregation specification
MaxVotes == 3

\* most segments handed to validate_segments in the validation specification
MaxValSegs == 2

\* most votes of one class in the distribution specification
MaxClassVotes == 11

\* number of request threads of the server
NumThreads == 2

\* most files of one upload
MaxFiles == 2

\* largest max_retries handed to safe_file_cleanup in its own specification
MaxRetries == 5

-----------------------------------------------------------------------------
(* Helpers *)

Min2(a, b) == IF a <= b THEN a ELSE b

Max2(a, b) == IF a >= b THEN a ELSE b

Abs(x) == IF x < 0 THEN 0 - x ELSE x

\* sums and extremes of s[lo..hi], by halves (the depth of the recursion
\* stays logarithmic in the length)
RECURSIVE SumRange(_, _, _)
SumRange(s, lo, hi) ==
    IF lo > hi THEN 0
    ELSE IF lo = hi THEN s[lo]
    ELSE LET mid == (lo + hi) \div 2
         IN  SumRange(s, lo, mid) + SumRange(s, mid + 1, hi)

RECURSIVE MinRange(_, _, _)
MinRange(s, lo, hi) ==
    IF lo = hi THEN s[lo]
    ELSE LET mid == (lo + hi) \div 2
         IN  Min2(MinRange(s, lo, mid), MinRange(s, mid + 1, hi))

SeqSum(s) == SumRange(s, 1, Len(s))

SeqSumSq(s) == SumRange([i \in DOMAIN s |-> s[i] * s[i]], 1, Len(s))

SeqMin(s) == MinRange(s, 1, Len(s))

SeqMax(s) == 0 - MinRange([i \in DOMAIN s |-> 0 - s[i]], 1, Len(s))

\* Python's s[start:end] for 0 <= start: the end is clamped to len(s)
PySlice(s, start, end) == SubSeq(s, start + 1, Min2(end, Len(s)))

\* round() of the rational num/den (den > 0, num >= 0) to an integer,
\* halves to the even neighbour as Python's round does
RoundHalfEven(num, den) ==
    LET q == num \div den
        r == num % den
    IN  IF 2 * r < den THEN q
        ELSE IF 2 * r > den THEN q + 1
        ELSE IF q % 2 = 0 THEN q ELSE q + 1

-----------------------------------------------------------------------------
(* preprocess_ecg *)

\* filtfilt's default padlen, 3 * max(len(a), len(b)), for the band-pass
\* filter of order FilterOrder (2 * FilterOrder + 1 coefficients): filtfilt
\* raises ValueError unless the signal is longer
PadLen == 3 * (2 * FilterOrder + 1)

\* The filtered signals of length n the model draws from: a dead signal, a
\* periodic one of amplitude 2 units, and one dead in its first half.
FilteredSignals(n) ==
    { [i \in 1..n |-> 0],
      [i \in 1..n |-> (i % 5) - 2],
      [i \in 1..n |-> IF 2 * i <= n THEN 0 ELSE (i % 5) - 2] }

-----------------------------------------------------------------------------
(* detect_r_peaks_scipy, detect_r_peaks_wfdb, detect_r_peaks *)

\* int(0.6 * sampling_rate); the float product truncates to the same
\* integer as the exact one for integer rates
MinDistance == (6 * sampling_rate) \div 10

\* the boundary margin's factor, 0.2, where the relaxed distance belongs
MinDistanceRelaxedAsMargin == (2 * sampling_rate) \div 10

\* int(0.4 * sampling_rate) of the two relaxed strategies
MinDistanceRelaxed == (4 * sampling_rate) \div 10

\* a margin of 0.1 x rate
BoundaryMarginTenth == sampling_rate \div 10

\* int(0.2 * sampling_rate): min_distance of the boundary filter
BoundaryMargin == (2 * sampling_rate) \div 10

\* the test with 2 for 3
TooFewPeaksBelowTwo(peaks) == Len(peaks) < 2

\* if len(r_peaks) < 3: the strategy's result is not enough
TooFewPeaks(peaks) == Len(peaks) < 3

\* Signal lengths: empty; too short for filtfilt; too short for a peak to
\* pass the boundary filter; too short for a window; and a long one.
SignalLengths == {0, PadLen, 2 * BoundaryMargin, DefaultSegmentLength, MaxLen}

\* The lengths below 2 x 0.2 x rate + 1: no index of such a signal is 0.2 x rate
\* or more from both of its ends.
ShortLengths == 1..((4 * sampling_rate) \div 10)

\* Candidate positions of a signal of n samples: a grid, and the indices on
\* both sides of every comparison the code makes with a peak.
Positions(n) ==
    LET h == DefaultSegmentLength \div 2
        m == BoundaryMargin
    IN  ({p \in 0..(n - 1) : p % PosStep = 0}
            \cup {0, m - 1, m, h - 1, h, n - h - 1, n - h, n - m - 1, n - m, n - 1})
        \cap 0..(n - 1)

\* the strictly increasing sequences over P of at most k entries whose
\* neighbours are at least d apart
RECURSIVE SpacedSeqs(_, _, _)
SpacedSeqs(P, d, k) ==
    IF k = 0 THEN {<<>>}
    ELSE {<<>>} \cup UNION { { <<p>> \o s : s \in SpacedSeqs({q \in P : q >= p + d}, d, k - 1) }
                             : p \in P }

\* scipy.signal.find_peaks(x, distance=d, ...) on a signal of n samples:
\* local maxima (never the first or the last sample), in increasing order,
\* neighbours at least d apart.  Which of them it returns depends on the
\* samples, the height and the prominence: any such sequence is possible.
FindPeaksTable(d) ==
    [n \in SignalLengths \cup ShortLengths |->
        SpacedSeqs(Positions(n) \cap 1..(n - 2), d, n)]

FindPeaksPrimary == FindPeaksTable(MinDistance)

FindPeaksRelaxed == FindPeaksTable(MinDistanceRelaxed)

\* wfdb.processing.gqrs_detect: increasing sample indices; the repository
\* passes it no minimum distance
WfdbTable ==
    [n \in SignalLengths \cup ShortLengths |->
        SpacedSeqs(Positions(n), 1, MaxPeaks)]

\* BoundaryFilter without its test of the signal's start
RECURSIVE BoundaryFilterNoLowerTest(_, _)
BoundaryFilterNoLowerTest(peaks, n) ==
    IF peaks = <<>> THEN <<>>
    ELSE LET peak == Head(peaks)
             rest == BoundaryFilterNoLowerTest(Tail(peaks), n)
         IN  IF peak < n - BoundaryMargin THEN <<peak>> \o rest ELSE rest

\* for peak in r_peaks: if min_distance <= peak < len(ecg_signal) - min_distance
RECURSIVE BoundaryFilter(_, _)
BoundaryFilter(peaks, n) ==
    IF peaks = <<>> THEN <<>>
    ELSE LET peak == Head(peaks)
             rest == BoundaryFilter(Tail(peaks), n)
         IN  IF BoundaryMargin <= peak /\ peak < n - BoundaryMargin
             THEN <<peak>> \o rest
             ELSE rest

-----------------------------------------------------------------------------
(* extract_heartbeat_segments *)

\* extract_heartbeat_segments with end_idx <= len(ecg_signal) as its test
RECURSIVE extract_segments_end_inclusive(_, _, _)
extract_segments_end_inclusive(ecg_signal, peaks, seg_len) ==
    IF peaks = <<>> THEN <<>>
    ELSE LET half_length == seg_len \div 2
             start_idx == Head(peaks) - half_length
             end_idx == Head(peaks) + half_length
             rest == extract_segments_end_inclusive(ecg_signal, Tail(peaks), seg_len)
         IN  IF start_idx >= 0 /\ end_idx <= Len(ecg_signal)
             THEN <<PySlice(ecg_signal, start_idx, end_idx)>> \o rest
             ELSE rest

RECURSIVE extract_heartbeat_segments(_, _, _)
extract_heartbeat_segments(ecg_signal, peaks, seg_len) ==
    IF peaks = <<>> THEN <<>>
    ELSE LET half_length == seg_len \div 2
             start_idx == Head(peaks) - half_length
             end_idx == Head(peaks) + half_length
             rest == extract_heartbeat_segments(ecg_signal, Tail(peaks), seg_len)
         IN  IF start_idx >= 0 /\ end_idx < Len(ecg_signal)
             THEN LET segment == PySlice(ecg_signal, start_idx, end_idx)
                  IN  IF Len(segment) = seg_len THEN <<segment>> \o rest ELSE rest
             ELSE rest

-----------------------------------------------------------------------------
(* validate_segments *)

\* np.any(np.isnan(segment)) or np.any(np.isinf(segment))
HasNonFinite(segment) ==
    \E i \in DOMAIN segment : segment[i] \in {NaN, PosInf, NegInf}

\* StdBelowMin with <= for <
StdAtOrBelowMin(segment) ==
    LET n == Len(segment)
        lo == SeqMin(segment)
        r == SeqMax(segment) - lo
        t == 2 * n * StdMin * StdMin
    IN  IF r > t \/ r * r > t THEN FALSE
        ELSE LET y == [i \in 1..n |-> segment[i] - lo]
             IN  n * SeqSumSq(y) - SeqSum(y) * SeqSum(y) <= n * n * StdMin * StdMin

\* np.std(segment) < 1e-6 for finite samples: n * sum(x^2) - sum(x)^2 <
\* n^2 * StdMin^2, evaluated on the samples shifted by their minimum (the
\* standard deviation does not change).  Two samples r apart put the
\* variance at r^2 / (2n) or more, so a range r with r^2 >= 2n * StdMin^2
\* decides the comparison without the sums, which keeps every product
\* inside 32 bits.
StdBelowMin(segment) ==
    LET n == Len(segment)
        lo == SeqMin(segment)
        r == SeqMax(segment) - lo
        t == 2 * n * StdMin * StdMin
    IN  IF r >= t \/ r * r >= t THEN FALSE
        ELSE LET y == [i \in 1..n |-> segment[i] - lo]
             IN  n * SeqSumSq(y) - SeqSum(y) * SeqSum(y) < n * n * StdMin * StdMin

\* np.max(np.abs(segment)) > 100
AmplitudeTooHigh(segment) ==
    SeqMax([i \in DOMAIN segment |-> Abs(segment[i])]) > AmpMax

\* the four checks of the loop body, in the code's order; a segment for
\* which one of them holds is skipped (continue)
SegmentRejected(segment, expected_length) ==
    \/ Len(segment) # expected_length
    \/ HasNonFinite(segment)
    \/ StdBelowMin(segment)
    \/ AmplitudeTooHigh(segment)

\* validate_segments with its loop one segment short
RECURSIVE validate_all_but_last(_, _)
validate_all_but_last(segments, expected_length) ==
    IF Len(segments) <= 1 THEN <<>>
    ELSE LET rest == validate_all_but_last(Tail(segments), expected_length)
         IN  IF SegmentRejected(Head(segments), expected_length)
             THEN rest
             ELSE <<Head(segments)>> \o rest

RECURSIVE validate_segments(_, _)
validate_segments(segments, expected_length) ==
    IF segments = <<>> THEN <<>>
    ELSE LET rest == validate_segments(Tail(segments), expected_length)
         IN  IF SegmentRejected(Head(segments), expected_length)
             THEN rest
             ELSE <<Head(segments)>> \o rest

-----------------------------------------------------------------------------
(* scaler.transform and model.predict: the loaded artifacts *)

\* StandardScaler.transform: (x - mean_[j]) / scale_[j] at every position j.
\* The scaler of the model has scale_ = 1 everywhere, so the division is
\* exact, and mean_ alternating between 0 and 1 unit.
ScalerTransform(rows) ==
    [i \in DOMAIN rows |-> [j \in DOMAIN rows[i] |-> rows[i][j] - (j % 2)]]

\* ecg_scaler.pkl: the same scaler as a value, mean_ and scale_ repeating
\* with period 2
LoadedScaler == [mean_ |-> <<1, 0>>, scale_ |-> <<1, 1>>]

\* sc.transform(rows) for a scaler value sc
Transform(sc, rows) ==
    [i \in DOMAIN rows |->
        [j \in DOMAIN rows[i] |->
            (rows[i][j] - sc.mean_[((j - 1) % Len(sc.mean_)) + 1])
                \div sc.scale_[((j - 1) % Len(sc.scale_)) + 1]]]

\* A classifier maps a row to its probabilities; only the argmax and the
\* max of a row are read, and both are functions of the row alone.  A
\* classifier is a pair of lookup tables, read at the sum of the row's
\* features: cls gives the argmax, conf the max (in units of 1e-6).
ConfLevels == <<1000000, 900050, 666667, 500000>>

LoadedModel == [cls |-> [k \in 1..NumClasses |-> k - 1], conf |-> ConfLevels]

ModelFamily == {LoadedModel, [cls |-> <<1>>, conf |-> <<900050>>]}

\* np.argmax(batch_predictions, axis=1) for one row
PredictClass(m, row) == m.cls[(SeqSum(row) % Len(m.cls)) + 1]

\* np.max(batch_predictions, axis=1) for one row
PredictConf(m, row) == m.conf[(SeqSum(row) % Len(m.conf)) + 1]

\* a batch one row short
BatchSliceOneShort(rows, i) == PySlice(rows, i, i + batch_size - 1)

\* batch = X_segments[i:i+batch_size]
BatchSlice(rows, i) == PySlice(rows, i, i + batch_size)

-----------------------------------------------------------------------------
(* the aggregation of process_ecg_file *)

ClassLabels == <<"N", "S", "V", "F", "Q", "L", "R", "A">>

\* class_mapping: index -> diagnosis label
class_mapping == [c \in 0..(NumClasses - 1) |-> ClassLabels[c + 1]]

\* Counter(segment_classes): the keys in the order of their first
\* occurrence (a dict keeps insertion order)
CounterKeys(classes) ==
    LET voted == {classes[i] : i \in DOMAIN classes}
        first(c) == CHOOSE i \in DOMAIN classes :
                       classes[i] = c /\ \A j \in 1..(i - 1) : classes[j] # c
    IN  [r \in 1..Cardinality(voted) |->
            CHOOSE c \in voted :
                Cardinality({d \in voted : first(d) <= first(c)}) = r]

\* class_votes[c]
VoteCount(classes, c) == Cardinality({i \in DOMAIN classes : classes[i] = c})

\* max(class_votes, key=class_votes.get): the first key, in the iteration
\* order of the Counter, whose count no other key exceeds
FinalClassIdx(classes) ==
    LET keys == CounterKeys(classes)
        i == CHOOSE i \in DOMAIN keys :
                /\ \A j \in DOMAIN keys :
                      VoteCount(classes, keys[j]) <= VoteCount(classes, keys[i])
                /\ \A j \in 1..(i - 1) :
                      VoteCount(classes, keys[j]) < VoteCount(classes, keys[i])
    IN  keys[i]

\* [conf for i, conf in enumerate(segment_confidences) if segment_classes[i] == c]
ConfidencesOf(classes, confidences, c) ==
    LET Voted(i) == classes[i] = c
        idx == SelectSeq([i \in DOMAIN classes |-> i], Voted)
    IN  [k \in DOMAIN idx |-> confidences[idx[k]]]

\* round(float(np.mean(values)), 4) if values else 0.0, in units of 1e-4
RoundedMean(values) ==
    IF values = <<>> THEN 0
    ELSE RoundHalfEven(SeqSum(values), 100 * Len(values))

\* the percentage cut off after its second decimal
PercentageTruncated(vote_count, total_segments) ==
    IF total_segments > 0
    THEN (10000 * vote_count) \div total_segments
    ELSE 0

\* round((vote_count / total_segments) * 100, 2) if total_segments > 0 else 0,
\* in units of 0.01
Percentage(vote_count, total_segments) ==
    IF total_segments > 0
    THEN RoundHalfEven(10000 * vote_count, total_segments)
    ELSE 0

\* segment_distribution: one entry per key of the Counter
SegmentDistribution(classes, confidences) ==
    LET voted == {c \in 0..(NumClasses - 1) : VoteCount(classes, c) > 0}
    IN  [name \in {class_mapping[c] : c \in voted} |->
            LET c == CHOOSE c \in voted : class_mapping[c] = name
            IN  [segment_count |-> VoteCount(classes, c),
                 percentage |-> Percentage(VoteCount(classes, c), Len(classes)),
                 avg_confidence |-> RoundedMean(ConfidencesOf(classes, confidences, c))]]

\* Diagnosis with the overall confidence taken over all segments
DiagnosisMeanOfAll(classes, confidences, n_samples) ==
    LET final_class_idx == FinalClassIdx(classes)
    IN  [predicted_diagnosis |-> class_mapping[final_class_idx],
         overall_confidence |-> RoundedMean(confidences),
         total_heartbeats |-> Len(classes),
         continuous_samples |-> n_samples,
         segment_distribution |-> SegmentDistribution(classes, confidences),
         preprocessing_success |-> TRUE,
         majority_vote_count |-> VoteCount(classes, final_class_idx)]

\* the dictionary process_ecg_file returns
Diagnosis(classes, confidences, n_samples) ==
    LET final_class_idx == FinalClassIdx(classes)
    IN  [predicted_diagnosis |-> class_mapping[final_class_idx],
         overall_confidence |->
             RoundedMean(ConfidencesOf(classes, confidences, final_class_idx)),
         total_heartbeats |-> Len(classes),
         continuous_samples |-> n_samples,
         segment_distribution |-> SegmentDistribution(classes, confidences),
         preprocessing_success |-> TRUE,
         majority_vote_count |-> VoteCount(classes, final_class_idx)]

\* no dictionary was returned
NoResult == [preprocessing_success |-> FALSE]

-----------------------------------------------------------------------------
(* The globals of app.py before and after load_models() *)

\* model = None, scaler = None, class_mapping = None
NoneModel == [cls |-> <<>>, conf |-> <<>>]

NoneScaler == [mean_ |-> <<>>, scale_ |-> <<>>]

NoneMapping == [c \in {} |-> ""]

Threads == 1..NumThreads

\* a thread that serves no request
IdleRequest ==
    [at |-> "idle", input |-> <<>>, rows |-> <<>>, i |-> 0,
     predictions |-> <<>>, confidences |-> <<>>, result |-> NoResult]

\* load_models() has run once and the server serves; no request thread is
\* looked at
ServerLoaded ==
    /\ server = "serving"
    /\ load_count = 1
    /\ scaler = LoadedScaler
    /\ class_map = class_mapping
    /\ requests = [t \in Threads |-> IdleRequest]

\* no upload handler is looked at
NoUpload ==
    /\ endpoint = "none"
    /\ files = <<>>
    /\ hpc = "none"
    /\ file_i = 0
    /\ filepath = 0
    /\ disk = {}
    /\ created = <<>>
    /\ raised = "none"
    /\ max_retries = 0
    /\ attempt = 0
    /\ attempt_log = <<>>
    /\ cleanups = <<>>
    /\ results = <<>>
    /\ response = [status |-> 0]

-----------------------------------------------------------------------------
(* The request: process_ecg_file and, inside it, segment_ecg_beats *)

\* the values of the request's variables before their stage has run
Blank ==
    /\ filtered_signal = <<>>
    /\ strategy = "none"
    /\ r_peaks = <<>>
    /\ valid_peaks = <<>>
    /\ raw_segments = <<>>
    /\ validated_segments = <<>>
    /\ heartbeat_segments = <<>>
    /\ batch_i = 0
    /\ calls = <<>>
    /\ all_predictions = <<>>
    /\ all_confidences = <<>>
    /\ result = NoResult
    /\ error = "none"

\* load_models() has run; a request enters process_ecg_file
Init ==
    /\ pc = "read"
    /\ segment_length = DefaultSegmentLength
    /\ continuous_samples = 0
    /\ model = LoadedModel
    /\ stages = <<>>
    /\ Blank
    /\ ServerLoaded
    /\ NoUpload

\* raise ValueError(...): the request is aborted with this failure
Raise(stage, failure) ==
    /\ pc' = "failed"
    /\ error' = failure
    /\ stages' = Append(stages, stage)

\* the stage is done, go on with the next one
Goto(stage, next) ==
    /\ pc' = next
    /\ stages' = Append(stages, stage)
    /\ UNCHANGED error

\* pd.read_csv, the choice of the column, the removal of the non-finite
\* samples and the test for an empty signal
ReadCsv ==
    /\ pc = "read"
    /\ \E n \in SignalLengths :
          /\ continuous_samples' = n
          /\ IF n = 0
             THEN Raise("read", "ECG signal contains no valid data after cleaning")
             ELSE Goto("read", "preprocess")
    /\ UNCHANGED <<segment_length, filtered_signal, strategy, r_peaks, valid_peaks,
                   raw_segments, validated_segments, heartbeat_segments, model,
                   batch_i, calls, all_predictions, all_confidences, result>>
    /\ UNCHANGED <<serverVars, uploadVars>>

\* no column of the file is taken for the ECG signal
ReadCsvNoColumn ==
    /\ pc = "read"
    /\ Raise("read", "No valid ECG column found")
    /\ UNCHANGED <<segment_length, continuous_samples, filtered_signal, strategy,
                   r_peaks, valid_peaks, raw_segments, validated_segments,
                   heartbeat_segments, model, batch_i, calls, all_predictions,
                   all_confidences, result>>
    /\ UNCHANGED <<serverVars, uploadVars>>

\* preprocess_ecg: filtfilt raises on a signal no longer than its padding
Preprocess ==
    /\ pc = "preprocess"
    /\ IF continuous_samples <= PadLen
       THEN /\ Raise("preprocess", "filtfilt: the input is not longer than padlen")
            /\ UNCHANGED filtered_signal
       ELSE /\ filtered_signal' \in FilteredSignals(continuous_samples)
            /\ Goto("preprocess", "wfdb")
    /\ UNCHANGED <<segment_length, continuous_samples, strategy, r_peaks, valid_peaks,
                   raw_segments, validated_segments, heartbeat_segments, model,
                   batch_i, calls, all_predictions, all_confidences, result>>
    /\ UNCHANGED <<serverVars, uploadVars>>

UnchangedByDetection ==
    /\ UNCHANGED <<segment_length, continuous_samples, filtered_signal, valid_peaks,
                   raw_segments, validated_segments, heartbeat_segments, model,
                   batch_i, calls, all_predictions, all_confidences, result>>
    /\ UNCHANGED <<serverVars, uploadVars>>

\* detect_r_peaks_wfdb returns: its peaks are taken whatever their number
DetectWfdb ==
    /\ pc = "wfdb"
    /\ r_peaks' \in WfdbTable[continuous_samples]
    /\ strategy' = "wfdb"
    /\ Goto("wfdb", "filter")
    /\ UnchangedByDetection

\* detect_r_peaks_wfdb raises (wfdb is not installed, or gqrs_detect fails):
\* the bare except falls back to detect_r_peaks_scipy
DetectWfdbRaises ==
    /\ pc = "wfdb"
    /\ Goto("wfdb", "scipy1")
    /\ UNCHANGED <<strategy, r_peaks>>
    /\ UnchangedByDetection

\* Strategy 1 of detect_r_peaks_scipy
DetectScipyPrimary ==
    /\ pc = "scipy1"
    /\ r_peaks' \in FindPeaksPrimary[continuous_samples]
    /\ strategy' = "scipy1"
    /\ Goto("scipy1", IF TooFewPeaks(r_peaks') THEN "scipy2" ELSE "filter")
    /\ UnchangedByDetection

\* Strategy 2 of detect_r_peaks_scipy: more lenient parameters
DetectScipyRelaxed ==
    /\ pc = "scipy2"
    /\ r_peaks' \in FindPeaksRelaxed[continuous_samples]
    /\ strategy' = "scipy2"
    /\ Goto("scipy2", IF TooFewPeaks(r_peaks') THEN "scipy3" ELSE "filter")
    /\ UnchangedByDetection

\* Strategy 3 of detect_r_peaks_scipy: no height constraint; its result is
\* returned whatever its size
DetectScipyNoHeight ==
    /\ pc = "scipy3"
    /\ r_peaks' \in FindPeaksRelaxed[continuous_samples]
    /\ strategy' = "scipy3"
    /\ Goto("scipy3", "filter")
    /\ UnchangedByDetection

\* the boundary filter of detect_r_peaks and its test for an empty result
FilterBoundary ==
    /\ pc = "filter"
    /\ valid_peaks' = BoundaryFilter(r_peaks, Len(filtered_signal))
    /\ IF Len(valid_peaks') = 0
       THEN Raise("filter", "No valid R-peaks found after boundary filtering")
       ELSE Goto("filter", "extract")
    /\ UNCHANGED <<segment_length, continuous_samples, filtered_signal, strategy,
                   r_peaks, raw_segments, validated_segments, heartbeat_segments,
                   model, batch_i, calls, all_predictions, all_confidences, result>>
    /\ UNCHANGED <<serverVars, uploadVars>>

\* Step 3 of segment_ecg_beats
ExtractSegments ==
    /\ pc = "extract"
    /\ raw_segments' =
          extract_heartbeat_segments(filtered_signal, valid_peaks, segment_length)
    /\ IF Len(raw_segments') = 0
       THEN Raise("extract", "No valid heartbeat segments extracted. R-peaks may be too close to signal boundaries.")
       ELSE Goto("extract", "validate")
    /\ UNCHANGED <<segment_length, continuous_samples, filtered_signal, strategy,
                   r_peaks, valid_peaks, validated_segments, heartbeat_segments,
                   model, batch_i, calls, all_predictions, all_confidences, result>>
    /\ UNCHANGED <<serverVars, uploadVars>>

\* Step 4 of segment_ecg_beats without its test for an empty result
ValidateSegmentsNoEmptyTest ==
    /\ pc = "validate"
    /\ validated_segments' = validate_segments(raw_segments, segment_length)
    /\ Goto("validate", "normalize")
    /\ UNCHANGED <<segment_length, continuous_samples, filtered_signal, strategy,
                   r_peaks, valid_peaks, raw_segments, heartbeat_segments, model,
                   batch_i, calls, all_predictions, all_confidences, result>>
    /\ UNCHANGED <<serverVars, uploadVars>>

\* Step 4 of segment_ecg_beats
ValidateSegments ==
    /\ pc = "validate"
    /\ validated_segments' = validate_segments(raw_segments, segment_length)
    /\ IF Len(validated_segments') = 0
       THEN Raise("validate", "No valid heartbeat segments after quality validation.")
       ELSE Goto("validate", "normalize")
    /\ UNCHANGED <<segment_length, continuous_samples, filtered_signal, strategy,
                   r_peaks, valid_peaks, raw_segments, heartbeat_segments, model,
                   batch_i, calls, all_predictions, all_confidences, result>>
    /\ UNCHANGED <<serverVars, uploadVars>>

\* Step 5 of segment_ecg_beats, its return, and the test of process_ecg_file
\* for an empty list
Normalize ==
    /\ pc = "normalize"
    /\ heartbeat_segments' = ScalerTransform(validated_segments)
    /\ IF Len(heartbeat_segments') = 0
       THEN Raise("normalize", "No valid heartbeat segments extracted. Check if ECG signal contains detectable R-peaks.")
       ELSE Goto("normalize", "classify")
    /\ UNCHANGED <<segment_length, continuous_samples, filtered_signal, strategy,
                   r_peaks, valid_peaks, raw_segments, validated_segments, model,
                   batch_i, calls, all_predictions, all_confidences, result>>
    /\ UNCHANGED <<serverVars, uploadVars>>

\* one pass of: for i in range(0, len(X_segments), batch_size)
PredictBatch ==
    /\ pc = "classify"
    /\ batch_i < Len(heartbeat_segments)
    /\ LET batch == BatchSlice(heartbeat_segments, batch_i)
       IN  /\ calls' = Append(calls, Len(batch))
           /\ all_predictions' = all_predictions \o
                 [k \in DOMAIN batch |-> PredictClass(model, batch[k])]
           /\ all_confidences' = all_confidences \o
                 [k \in DOMAIN batch |-> PredictConf(model, batch[k])]
    /\ batch_i' = batch_i + batch_size
    /\ UNCHANGED <<pc, segment_length, continuous_samples, filtered_signal, strategy,
                   r_peaks, valid_peaks, raw_segments, validated_segments,
                   heartbeat_segments, model, result, error, stages>>
    /\ UNCHANGED <<serverVars, uploadVars>>

\* the loop is over: the vote, the statistics and the returned dictionary
Aggregate ==
    /\ pc = "classify"
    /\ batch_i >= Len(heartbeat_segments)
    /\ result' = Diagnosis(all_predictions, all_confidences, continuous_samples)
    /\ Goto("classify", "done")
    /\ UNCHANGED <<segment_length, continuous_samples, filtered_signal, strategy,
                   r_peaks, valid_peaks, raw_segments, validated_segments,
                   heartbeat_segments, model, batch_i, calls, all_predictions,
                   all_confidences>>
    /\ UNCHANGED <<serverVars, uploadVars>>

Next ==
    \/ ReadCsv
    \/ ReadCsvNoColumn
    \/ Preprocess
    \/ DetectWfdb
    \/ DetectWfdbRaises
    \/ DetectScipyPrimary
    \/ DetectScipyRelaxed
    \/ DetectScipyNoHeight
    \/ FilterBoundary
    \/ ExtractSegments
    \/ ValidateSegments
    \/ Normalize
    \/ PredictBatch
    \/ Aggregate

Spec == Init /\ [][Next]_vars

-----------------------------------------------------------------------------
(* segment_ecg_beats on the short signals: every length of ShortLengths *)

\* the file is read and has given a signal of one of the short lengths
InitShort ==
    /\ pc = "preprocess"
    /\ segment_length = DefaultSegmentLength
    /\ continuous_samples \in ShortLengths
    /\ model = LoadedModel
    /\ stages = <<"read">>
    /\ Blank
    /\ ServerLoaded
    /\ NoUpload

NextShort ==
    \/ Preprocess
    \/ DetectWfdb
    \/ DetectWfdbRaises
    \/ DetectScipyPrimary
    \/ DetectScipyRelaxed
    \/ DetectScipyNoHeight
    \/ FilterBoundary

SpecShort == InitShort /\ [][NextShort]_vars

-----------------------------------------------------------------------------
(* validate_segments on its own: any list of segments, any expected length *)

ValSamples == {0, 1, 2, AmpMax, 0 - (AmpMax + 1), NaN, PosInf}

ValSegments == UNION {[1..k -> ValSamples] : k \in 1..2}

InitValidate ==
    /\ pc = "validate"
    /\ segment_length \in {1, 2}
    /\ continuous_samples = 0
    /\ model = LoadedModel
    /\ stages = <<>>
    /\ filtered_signal = <<>>
    /\ strategy = "none"
    /\ r_peaks = <<>>
    /\ valid_peaks = <<>>
    /\ raw_segments \in UNION {[1..k -> ValSegments] : k \in 0..MaxValSegs}
    /\ validated_segments = <<>>
    /\ heartbeat_segments = <<>>
    /\ batch_i = 0
    /\ calls = <<>>
    /\ all_predictions = <<>>
    /\ all_confidences = <<>>
    /\ result = NoResult
    /\ error = "none"
    /\ ServerLoaded
    /\ NoUpload

NextValidate == ValidateSegments

SpecValidate == InitValidate /\ [][NextValidate]_vars

\* validate_segments is handed its own result: the validated segments are
\* the input of a second call with the same expected length
ValidateAgain ==
    /\ pc \in {"normalize", "failed"}
    /\ stages = <<"validate">>
    /\ raw_segments' = validated_segments
    /\ validated_segments' = <<>>
    /\ pc' = "validate"
    /\ error' = "none"
    /\ UNCHANGED <<segment_length, continuous_samples, filtered_signal, strategy,
                   r_peaks, valid_peaks, heartbeat_segments, model, batch_i, calls,
                   all_predictions, all_confidences, result, stages>>
    /\ UNCHANGED <<serverVars, uploadVars>>

NextRevalidate ==
    \/ ValidateSegments
    \/ ValidateAgain

SpecRevalidate == InitValidate /\ [][NextRevalidate]_vars

-----------------------------------------------------------------------------
(* the batched classification and the aggregation on their own: any number *)
(* of normalized rows                                                      *)

\* the request has its rows and enters the prediction loop
InitClassify(rows, classifier) ==
    /\ pc = "classify"
    /\ segment_length = 1
    /\ continuous_samples = 0
    /\ model = classifier
    /\ stages = <<>>
    /\ filtered_signal = <<>>
    /\ strategy = "none"
    /\ r_peaks = <<>>
    /\ valid_peaks = <<>>
    /\ raw_segments = <<>>
    /\ validated_segments = <<>>
    /\ heartbeat_segments = rows
    /\ batch_i = 0
    /\ calls = <<>>
    /\ all_predictions = <<>>
    /\ all_confidences = <<>>
    /\ result = NoResult
    /\ error = "none"
    /\ ServerLoaded
    /\ NoUpload

\* up to MaxSegments distinct rows, a classifier of the family
InitBatch ==
    \E n \in 1..MaxSegments, classifier \in ModelFamily :
        InitClassify([i \in 1..n |-> <<i>>], classifier)

NextClassify ==
    \/ PredictBatch
    \/ Aggregate

SpecBatch == InitBatch /\ [][NextClassify]_vars

\* up to MaxVotes distinct rows, and every classifier on them: every
\* sequence of per-segment predictions
VoteConfidences == {500000, 900050, 1000000}

InitAggregate ==
    \E n \in 1..MaxVotes :
        \E cls \in [1..n -> 0..(NumClasses - 1)], conf \in [1..n -> VoteConfidences] :
            InitClassify([i \in 1..n |-> <<i - 1>>], [cls |-> cls, conf |-> conf])

SpecAggregate == InitAggregate /\ [][NextClassify]_vars

\* the votes of the classes 0..c together
RECURSIVE VotesUpTo(_, _)
VotesUpTo(counts, c) ==
    IF c < 0 THEN 0 ELSE counts[c] + VotesUpTo(counts, c - 1)

\* segment_classes with counts[c] votes for every class c
VotesOf(counts) ==
    [i \in 1..VotesUpTo(counts, NumClasses - 1) |->
        CHOOSE c \in 0..(NumClasses - 1) :
            VotesUpTo(counts, c - 1) < i /\ i <= VotesUpTo(counts, c)]

\* every vote count of up to MaxClassVotes per class, not all of them zero
InitDistribution ==
    \E counts \in [0..(NumClasses - 1) -> 0..MaxClassVotes] :
        /\ VotesUpTo(counts, NumClasses - 1) > 0
        /\ InitClassify([i \in DOMAIN VotesOf(counts) |-> <<i - 1>>],
                        [cls |-> VotesOf(counts), conf |-> <<900050>>])

SpecDistribution == InitDistribution /\ [][NextClassify]_vars

-----------------------------------------------------------------------------
(* The server: load_models() at import, then request threads running        *)
(* process_ecg_file concurrently (app.run(..., threaded=True)).  Of a        *)
(* request the steps that read a global are kept, each reading it when the   *)
(* step is taken; everything else a request computes on is a local variable  *)
(* of its thread.                                                            *)

\* the pipeline variables of the single-request specifications are not used
PipelineIdle ==
    /\ pc = "none"
    /\ segment_length = DefaultSegmentLength
    /\ continuous_samples = 0
    /\ stages = <<>>
    /\ Blank

InitServer ==
    /\ server = "import"
    /\ load_count = 0
    /\ model = NoneModel
    /\ scaler = NoneScaler
    /\ class_map = NoneMapping
    /\ requests = [t \in Threads |-> IdleRequest]
    /\ PipelineIdle
    /\ NoUpload

\* load_models() at the import of app.py: the three globals are assigned
LoadModels ==
    /\ server = "import"
    /\ model' = LoadedModel
    /\ scaler' = LoadedScaler
    /\ class_map' = class_mapping
    /\ load_count' = load_count + 1
    /\ server' = "loaded"
    /\ UNCHANGED <<requests, pipelineVars, uploadVars>>

\* load_models() raises at its first, second or third artifact: the globals
\* before it are assigned, the exception ends the import
LoadModelsRaises ==
    /\ server = "import"
    /\ \E k \in 0..2 :
          /\ model' = (IF k >= 1 THEN LoadedModel ELSE model)
          /\ scaler' = (IF k >= 2 THEN LoadedScaler ELSE scaler)
    /\ server' = "crashed"
    /\ UNCHANGED <<class_map, load_count, requests, pipelineVars, uploadVars>>

\* app.run(...): the server starts to accept requests
Serve ==
    /\ server = "loaded"
    /\ server' = "serving"
    /\ UNCHANGED <<model, scaler, class_map, load_count, requests,
                   pipelineVars, uploadVars>>

\* the validated segments of the requests, before the scaler is applied
RequestInputs ==
    { <<<<0, 2>>>>,
      <<<<1, 2>>, <<0, 2>>, <<3, 4>>>>,
      [k \in 1..(batch_size + 1) |-> <<k, 0>>] }

\* the dictionary of Diagnosis with its labels read from `mapping`
DiagnosisWith(mapping, classes, confidences, n_samples) ==
    LET d == Diagnosis(classes, confidences, n_samples)
        voted == {c \in 0..(NumClasses - 1) : VoteCount(classes, c) > 0}
    IN  [d EXCEPT
            !.predicted_diagnosis = mapping[FinalClassIdx(classes)],
            !.segment_distribution =
                [name \in {mapping[c] : c \in voted} |->
                    d.segment_distribution[
                        class_mapping[CHOOSE c \in voted : mapping[c] = name]]]]

\* a request enters process_ecg_file on thread t; its file gives these
\* validated segments
RequestArrives(t) ==
    /\ server = "serving"
    /\ requests[t].at = "idle"
    /\ \E input \in RequestInputs :
          requests' = [requests EXCEPT ![t] =
              [IdleRequest EXCEPT !.at = "normalize", !.input = input]]
    /\ UNCHANGED <<model, server, load_count, scaler, class_map,
                   pipelineVars, uploadVars>>

\* scaler.fit_transform for scaler.transform: the global scaler is fitted to
\* the segments of the request
RequestNormalizeRefits(t) ==
    /\ requests[t].at = "normalize"
    /\ scaler' = [mean_ |-> requests[t].input[1], scale_ |-> <<1, 1>>]
    /\ requests' = [requests EXCEPT
          ![t].rows = Transform(scaler', requests[t].input),
          ![t].at = "predict"]
    /\ UNCHANGED <<model, server, load_count, class_map, pipelineVars, uploadVars>>

\* normalized_segments = scaler.transform(segments_array) on thread t
RequestNormalize(t) ==
    /\ requests[t].at = "normalize"
    /\ requests' = [requests EXCEPT
          ![t].rows = Transform(scaler, requests[t].input),
          ![t].at = "predict"]
    /\ UNCHANGED <<model, server, load_count, scaler, class_map,
                   pipelineVars, uploadVars>>

\* one pass of the prediction loop on thread t
RequestPredictBatch(t) ==
    /\ requests[t].at = "predict"
    /\ requests[t].i < Len(requests[t].rows)
    /\ LET batch == BatchSlice(requests[t].rows, requests[t].i)
       IN  requests' = [requests EXCEPT
              ![t].predictions = @ \o [k \in DOMAIN batch |-> PredictClass(model, batch[k])],
              ![t].confidences = @ \o [k \in DOMAIN batch |-> PredictConf(model, batch[k])],
              ![t].i = @ + batch_size]
    /\ UNCHANGED <<model, server, load_count, scaler, class_map,
                   pipelineVars, uploadVars>>

\* the vote and the returned dictionary on thread t
RequestAggregate(t) ==
    /\ requests[t].at = "predict"
    /\ requests[t].i >= Len(requests[t].rows)
    /\ requests' = [requests EXCEPT
          ![t].result = DiagnosisWith(class_map, requests[t].predictions,
                                      requests[t].confidences, 0),
          ![t].at = "done"]
    /\ UNCHANGED <<model, server, load_count, scaler, class_map,
                   pipelineVars, uploadVars>>

\* the response is sent; the thread is free for the next request
RequestReturns(t) ==
    /\ requests[t].at = "done"
    /\ requests' = [requests EXCEPT ![t] = IdleRequest]
    /\ UNCHANGED <<model, server, load_count, scaler, class_map,
                   pipelineVars, uploadVars>>

NextServer ==
    \/ LoadModels
    \/ LoadModelsRaises
    \/ Serve
    \/ \E t \in Threads :
          \/ RequestArrives(t)
          \/ RequestNormalize(t)
          \/ RequestPredictBatch(t)
          \/ RequestAggregate(t)
          \/ RequestReturns(t)

SpecServer == InitServer /\ [][NextServer]_vars

-----------------------------------------------------------------------------
(* The upload handlers predict_ecg and predict_ecg_batch, with               *)
(* safe_file_cleanup.  A file name is the tuple of its parts between the     *)
(* dots, the empty tuple being the empty name.  process_ecg_file is taken    *)
(* by its outcomes: the dictionary it returns or the failure it raises.      *)

FileNames == {<<>>, <<"ecg", "csv">>, <<"my ecg", "CSV">>, <<"notes", "txt">>}

\* str.lower() on the extensions of FileNames
Lower(x) == IF x = "CSV" THEN "csv" ELSE x

\* '.' in filename and filename.rsplit('.', 1)[1].lower() == 'csv'
allowed_file(filename) ==
    Len(filename) >= 2 /\ Lower(filename[Len(filename)]) = "csv"

\* werkzeug's secure_filename on the names of FileNames: a space becomes an
\* underscore
secure_filename(filename) ==
    [k \in DOMAIN filename |->
        IF filename[k] = "my ecg" THEN "my_ecg" ELSE filename[k]]

\* process_ecg_file(filepath) returns its dictionary or raises
ProcessOutcomes ==
    { [ok |-> TRUE, error |-> "none",
       result |-> Diagnosis(<<0, 1, 0>>, <<900050, 500000, 1000000>>, MaxLen)],
      [ok |-> FALSE, result |-> NoResult,
       error |-> "No valid R-peaks found after boundary filtering"],
      [ok |-> FALSE, result |-> NoResult,
       error |-> "No valid ECG column found"] }

\* result_batch['filename'] = filename_batch
WithFilename(dict, filename) ==
    [k \in DOMAIN dict \cup {"filename"} |->
        IF k = "filename" THEN filename ELSE dict[k]]

\* an entry of results for a file that gave no diagnosis
ErrorEntry(filename, message) ==
    [filename |-> filename, error |-> message, preprocessing_success |-> FALSE]

\* tempfile.mkstemp: a path no file has had
NewPath == Len(created) + 1

\* a handler has received the upload `upload` at `route`
InitHandler(route, upload) ==
    /\ endpoint = route
    /\ files = upload
    /\ hpc = "start"
    /\ file_i = 0
    /\ filepath = 0
    /\ disk = {}
    /\ created = <<>>
    /\ raised = "none"
    /\ max_retries = DefaultMaxRetries
    /\ attempt = 0
    /\ attempt_log = <<>>
    /\ cleanups = <<>>
    /\ results = <<>>
    /\ response = [status |-> 0]

InitUpload ==
    /\ \/ \E upload \in {<<>>} \cup {<<f>> : f \in FileNames} :
             InitHandler("predict", upload)
       \/ \E upload \in UNION {[1..n -> FileNames] : n \in 0..MaxFiles} :
             InitHandler("predict_batch", upload)
    /\ model = LoadedModel
    /\ ServerLoaded
    /\ PipelineIdle

\* safe_file_cleanup(filepath) is called, with its default max_retries
CallCleanup ==
    /\ hpc' = "cleanup"
    /\ max_retries' = DefaultMaxRetries
    /\ attempt' = 0
    /\ attempt_log' = <<>>

\* safe_file_cleanup returns
CleanupReturns(value) ==
    /\ hpc' = "cleaned"
    /\ cleanups' = Append(cleanups, [path |-> filepath, returned |-> value])

\* an attempt: os.path.exists(filepath) is false, return True
CleanupFindsAbsent ==
    /\ hpc = "cleanup"
    /\ attempt < max_retries
    /\ filepath \notin disk
    /\ attempt_log' = Append(attempt_log, "absent")
    /\ CleanupReturns(TRUE)
    /\ UNCHANGED <<endpoint, files, file_i, filepath, disk, created, raised,
                   max_retries, attempt, results, response>>
    /\ UNCHANGED <<pipelineVars, model, serverVars>>

\* an attempt: the file exists and os.remove succeeds, return True
CleanupRemoves ==
    /\ hpc = "cleanup"
    /\ attempt < max_retries
    /\ filepath \in disk
    /\ disk' = disk \ {filepath}
    /\ attempt_log' = Append(attempt_log, "removed")
    /\ CleanupReturns(TRUE)
    /\ UNCHANGED <<endpoint, files, file_i, filepath, created, raised,
                   max_retries, attempt, results, response>>
    /\ UNCHANGED <<pipelineVars, model, serverVars>>

\* CleanupRaises that gives up at the first failure
CleanupRaisesGivesUp ==
    /\ hpc = "cleanup"
    /\ attempt < max_retries
    /\ filepath \in disk
    /\ attempt_log' = Append(attempt_log, "raised")
    /\ CleanupReturns(FALSE)
    /\ UNCHANGED <<endpoint, files, file_i, filepath, disk, created, raised,
                   max_retries, attempt, results, response>>
    /\ UNCHANGED <<pipelineVars, model, serverVars>>

\* an attempt: the file exists and os.remove raises OSError (the file is
\* locked, or it has gone since os.path.exists); the last attempt returns
\* False, any other one is followed by the next
CleanupRaises ==
    /\ hpc = "cleanup"
    /\ attempt < max_retries
    /\ filepath \in disk
    /\ disk' \in {disk, disk \ {filepath}}
    /\ attempt_log' = Append(attempt_log, "raised")
    /\ IF attempt < max_retries - 1
       THEN /\ attempt' = attempt + 1
            /\ UNCHANGED <<hpc, cleanups>>
       ELSE /\ CleanupReturns(FALSE)
            /\ UNCHANGED attempt
    /\ UNCHANGED <<endpoint, files, file_i, filepath, created, raised,
                   max_retries, results, response>>
    /\ UNCHANGED <<pipelineVars, model, serverVars>>

\* the for loop ends without an attempt having returned: return False
CleanupLoopEnds ==
    /\ hpc = "cleanup"
    /\ attempt >= max_retries
    /\ CleanupReturns(FALSE)
    /\ UNCHANGED <<endpoint, files, file_i, filepath, disk, created, raised,
                   max_retries, attempt, attempt_log, results, response>>
    /\ UNCHANGED <<pipelineVars, model, serverVars>>

\* predict_ecg returns 400 before any file is created; the finally clause
\* finds filepath None
PredictRejects ==
    /\ endpoint = "predict"
    /\ hpc = "start"
    /\ \/ /\ files = <<>>
          /\ response' = [status |-> 400, error |-> "No file uploaded"]
       \/ /\ files # <<>>
          /\ files[1] = <<>>
          /\ response' = [status |-> 400, error |-> "No file selected"]
       \/ /\ files # <<>>
          /\ files[1] # <<>>
          /\ ~allowed_file(files[1])
          /\ response' = [status |-> 400,
                          error |-> "Invalid file type. Please upload a CSV file"]
    /\ hpc' = "returned"
    /\ UNCHANGED <<endpoint, files, file_i, filepath, disk, created, raised,
                   max_retries, attempt, attempt_log, cleanups, results>>
    /\ UNCHANGED <<pipelineVars, model, serverVars>>

\* secure_filename and tempfile.mkstemp in predict_ecg: the file is created,
\* or mkstemp raises and the handler answers 500 with filepath None
PredictMkstemp ==
    /\ endpoint = "predict"
    /\ hpc = "start"
    /\ files # <<>>
    /\ files[1] # <<>>
    /\ allowed_file(files[1])
    /\ \/ /\ filepath' = NewPath
          /\ disk' = disk \cup {NewPath}
          /\ created' = Append(created, NewPath)
          /\ file_i' = 1
          /\ hpc' = "save"
          /\ UNCHANGED response
       \/ /\ response' = [status |-> 500, error |-> "mkstemp failed",
                          preprocessing_success |-> FALSE]
          /\ hpc' = "returned"
          /\ UNCHANGED <<filepath, disk, created, file_i>>
    /\ UNCHANGED <<endpoint, files, raised, max_retries, attempt, attempt_log,
                   cleanups, results>>
    /\ UNCHANGED <<pipelineVars, model, serverVars>>

\* file.save(temp_file) in predict_ecg: on a failure the except clause
\* answers 500 and the finally clause calls safe_file_cleanup
PredictSave ==
    /\ endpoint = "predict"
    /\ hpc = "save"
    /\ \/ /\ hpc' = "process"
          /\ UNCHANGED <<response, max_retries, attempt, attempt_log>>
       \/ /\ response' = [status |-> 500, error |-> "save failed",
                          preprocessing_success |-> FALSE]
          /\ CallCleanup
    /\ UNCHANGED <<endpoint, files, file_i, filepath, disk, created, raised,
                   cleanups, results>>
    /\ UNCHANGED <<pipelineVars, model, serverVars>>

\* result = process_ecg_file(filepath) in predict_ecg, the response, and the
\* finally clause calling safe_file_cleanup
PredictProcess ==
    /\ endpoint = "predict"
    /\ hpc = "process"
    /\ \E o \in ProcessOutcomes :
          response' = IF o.ok
                      THEN [status |-> 200, body |-> o.result]
                      ELSE [status |-> 500, error |-> o.error,
                            preprocessing_success |-> FALSE]
    /\ CallCleanup
    /\ UNCHANGED <<endpoint, files, file_i, filepath, disk, created, raised,
                   cleanups, results>>
    /\ UNCHANGED <<pipelineVars, model, serverVars>>

\* safe_file_cleanup has returned in the finally clause: predict_ecg returns
PredictReturns ==
    /\ endpoint = "predict"
    /\ hpc = "cleaned"
    /\ hpc' = "returned"
    /\ UNCHANGED <<endpoint, files, file_i, filepath, disk, created, raised,
                   max_retries, attempt, attempt_log, cleanups, results, response>>
    /\ UNCHANGED <<pipelineVars, model, serverVars>>

\* predict_ecg_batch: 400 without files or with empty names only, else the loop
BatchStarts ==
    /\ endpoint = "predict_batch"
    /\ hpc = "start"
    /\ IF files = <<>>
       THEN /\ response' = [status |-> 400, error |-> "No files uploaded"]
            /\ hpc' = "returned"
            /\ UNCHANGED file_i
       ELSE IF \A k \in DOMAIN files : files[k] = <<>>
       THEN /\ response' = [status |-> 400, error |-> "No files selected"]
            /\ hpc' = "returned"
            /\ UNCHANGED file_i
       ELSE /\ hpc' = "loop"
            /\ file_i' = 1
            /\ UNCHANGED response
    /\ UNCHANGED <<endpoint, files, filepath, disk, created, raised,
                   max_retries, attempt, attempt_log, cleanups, results>>
    /\ UNCHANGED <<pipelineVars, model, serverVars>>

\* a file with an empty name is passed over, one that is no CSV file gets
\* its error entry
BatchSkipsOrRejects ==
    /\ endpoint = "predict_batch"
    /\ hpc = "loop"
    /\ file_i <= Len(files)
    /\ ~(files[file_i] # <<>> /\ allowed_file(files[file_i]))
    /\ results' = IF files[file_i] # <<>>
                  THEN Append(results, ErrorEntry(files[file_i],
                                   "Invalid file type. Only CSV allowed."))
                  ELSE results
    /\ file_i' = file_i + 1
    /\ UNCHANGED <<endpoint, files, hpc, filepath, disk, created, raised,
                   max_retries, attempt, attempt_log, cleanups, response>>
    /\ UNCHANGED <<pipelineVars, model, serverVars>>

\* secure_filename and tempfile.mkstemp in the loop: the file is created, or
\* mkstemp raises and the except clause appends the error entry
BatchMkstemp ==
    /\ endpoint = "predict_batch"
    /\ hpc = "loop"
    /\ file_i <= Len(files)
    /\ files[file_i] # <<>>
    /\ allowed_file(files[file_i])
    /\ \/ /\ filepath' = NewPath
          /\ disk' = disk \cup {NewPath}
          /\ created' = Append(created, NewPath)
          /\ hpc' = "save"
          /\ UNCHANGED <<results, file_i>>
       \/ /\ results' = Append(results, ErrorEntry(files[file_i], "mkstemp failed"))
          /\ file_i' = file_i + 1
          /\ filepath' = 0
          /\ UNCHANGED <<disk, created, hpc>>
    /\ UNCHANGED <<endpoint, files, raised, max_retries, attempt, attempt_log,
                   cleanups, response>>
    /\ UNCHANGED <<pipelineVars, model, serverVars>>

\* BatchSave with the failure handled by the except clause alone
BatchSaveNoFinally ==
    /\ endpoint = "predict_batch"
    /\ hpc = "save"
    /\ \/ /\ hpc' = "process"
          /\ UNCHANGED <<results, file_i>>
       \/ /\ results' = Append(results, ErrorEntry(files[file_i], "save failed"))
          /\ file_i' = file_i + 1
          /\ hpc' = "loop"
    /\ UNCHANGED <<endpoint, files, filepath, disk, created, raised, max_retries,
                   attempt, attempt_log, cleanups, response>>
    /\ UNCHANGED <<pipelineVars, model, serverVars>>

\* file_item.save(temp_file_batch): on a failure the finally clause calls
\* safe_file_cleanup with the exception in flight
BatchSave ==
    /\ endpoint = "predict_batch"
    /\ hpc = "save"
    /\ \/ /\ hpc' = "process"
          /\ UNCHANGED <<raised, max_retries, attempt, attempt_log>>
       \/ /\ raised' = "save failed"
          /\ CallCleanup
    /\ UNCHANGED <<endpoint, files, file_i, filepath, disk, created, cleanups,
                   results, response>>
    /\ UNCHANGED <<pipelineVars, model, serverVars>>

\* BatchProcess with a failure of process_ecg_file ending the request
BatchProcessAborts ==
    /\ endpoint = "predict_batch"
    /\ hpc = "process"
    /\ \E o \in ProcessOutcomes :
          IF o.ok
          THEN /\ results' = Append(results,
                      WithFilename(o.result, secure_filename(files[file_i])))
               /\ CallCleanup
               /\ UNCHANGED response
          ELSE /\ response' = [status |-> 500, error |-> o.error]
               /\ hpc' = "returned"
               /\ UNCHANGED <<results, max_retries, attempt, attempt_log>>
    /\ UNCHANGED <<endpoint, files, file_i, filepath, disk, created, raised, cleanups>>
    /\ UNCHANGED <<pipelineVars, model, serverVars>>

\* result_batch = process_ecg_file(filepath_batch): its dictionary is
\* appended with the file's name, or its failure is in flight; then the
\* finally clause calls safe_file_cleanup
BatchProcess ==
    /\ endpoint = "predict_batch"
    /\ hpc = "process"
    /\ \E o \in ProcessOutcomes :
          IF o.ok
          THEN /\ results' = Append(results,
                      WithFilename(o.result, secure_filename(files[file_i])))
               /\ UNCHANGED raised
          ELSE /\ raised' = o.error
               /\ UNCHANGED results
    /\ CallCleanup
    /\ UNCHANGED <<endpoint, files, file_i, filepath, disk, created, cleanups,
                   response>>
    /\ UNCHANGED <<pipelineVars, model, serverVars>>

\* safe_file_cleanup has returned in the finally clause: an exception in
\* flight reaches the except clause, which appends the error entry; the loop
\* goes on with the next file
BatchAfterCleanup ==
    /\ endpoint = "predict_batch"
    /\ hpc = "cleaned"
    /\ results' = IF raised # "none"
                  THEN Append(results, ErrorEntry(files[file_i], raised))
                  ELSE results
    /\ raised' = "none"
    /\ file_i' = file_i + 1
    /\ filepath' = 0
    /\ attempt' = 0
    /\ attempt_log' = <<>>
    /\ hpc' = "loop"
    /\ UNCHANGED <<endpoint, files, disk, created, max_retries, cleanups, response>>
    /\ UNCHANGED <<pipelineVars, model, serverVars>>

\* the loop is over: the response of predict_ecg_batch
BatchReturns ==
    /\ endpoint = "predict_batch"
    /\ hpc = "loop"
    /\ file_i > Len(files)
    /\ response' =
          [status |-> 200,
           batch_results |-> results,
           total_files |-> Len(files),
           successful_predictions |->
               Cardinality({k \in DOMAIN results : results[k].preprocessing_success})]
    /\ hpc' = "returned"
    /\ UNCHANGED <<endpoint, files, file_i, filepath, disk, created, raised,
                   max_retries, attempt, attempt_log, cleanups, results>>
    /\ UNCHANGED <<pipelineVars, model, serverVars>>

NextUpload ==
    \/ PredictRejects
    \/ PredictMkstemp
    \/ PredictSave
    \/ PredictProcess
    \/ PredictReturns
    \/ BatchStarts
    \/ BatchSkipsOrRejects
    \/ BatchMkstemp
    \/ BatchSave
    \/ BatchProcess
    \/ BatchAfterCleanup
    \/ BatchReturns
    \/ CleanupFindsAbsent
    \/ CleanupRemoves
    \/ CleanupRaises

SpecUpload == InitUpload /\ [][NextUpload]_vars

\* safe_file_cleanup on its own: any max_retries up to MaxRetries, the file
\* there or not, next to another file
InitCleanup ==
    /\ endpoint = "none"
    /\ files = <<>>
    /\ hpc = "cleanup"
    /\ file_i = 0
    /\ filepath \in 1..2
    /\ disk \in SUBSET (1..2)
    /\ created = <<>>
    /\ raised = "none"
    /\ max_retries \in 0..MaxRetries
    /\ attempt = 0
    /\ attempt_log = <<>>
    /\ cleanups = <<>>
    /\ results = <<>>
    /\ response = [status |-> 0]
    /\ model = LoadedModel
    /\ ServerLoaded
    /\ PipelineIdle

NextCleanup ==
    \/ CleanupFindsAbsent
    \/ CleanupRemoves
    \/ CleanupRaises
    \/ CleanupLoopEnds

\* the call runs on: a step of safe_file_cleanup that can be taken is taken
SpecCleanup == InitCleanup /\ [][NextCleanup]_vars /\ WF_vars(NextCleanup)

-----------------------------------------------------------------------------
(* Properties *)

\* the stage has run in this request
Ran(stage) == \E i \in DOMAIN stages : stages[i] = stage

\* the peaks of valid_peaks around which a window of segment_length samples
\* starts at or after index 0 and ends before index `last`
PeaksWithWindow(last) ==
    LET half == segment_length \div 2
        Fits(p) == p - half >= 0 /\ p + half < last
    IN  SelectSeq(valid_peaks, Fits)

\* the window [p - L/2, p + L/2) of every peak of `peaks`, in their order
WindowsOf(peaks) ==
    LET half == segment_length \div 2
    IN  [k \in DOMAIN peaks |->
            [j \in 1..(2 * half) |-> filtered_signal[peaks[k] - half + j]]]

\* C1, as stated: every peak that passes the boundary filter gets its
\* window, so there are as many segments as accepted peaks.
C1_SegmentPerAcceptedPeak ==
    Ran("extract") => Len(raw_segments) = Len(valid_peaks)

\* C1, amended: the boundary filter does not guarantee a full window.  An
\* accepted peak p gets a segment exactly when also p >= L/2 and
\* p + L/2 < len(signal), so the segments are at most as many as the
\* accepted peaks.
C1_SegmentsOfPeaksFarFromEnds ==
    Ran("extract") =>
        /\ Len(raw_segments) = Len(PeaksWithWindow(Len(filtered_signal)))
        /\ Len(raw_segments) <= Len(valid_peaks)

\* C1: some accepted peaks got their window and some did not
C1_Witness ==
    /\ Ran("extract")
    /\ Len(raw_segments) > 0
    /\ Len(raw_segments) < Len(valid_peaks)

\* C4, as stated: the window of a peak is kept if and only if it lies in
\* [0, len) and has L samples; the segments are in peak order and at most
\* as many as the peaks.
C4_WindowKeptIffInsideSignal ==
    Ran("extract") =>
        /\ raw_segments = WindowsOf(PeaksWithWindow(Len(filtered_signal) + 1))
        /\ Len(raw_segments) <= Len(valid_peaks)

\* C7: every accepted peak is at least the boundary margin, 0.2 x rate, from
\* the first sample and from the end of the signal.
C7_PeaksInsideBoundaryMargin ==
    Ran("filter") =>
        \A i \in DOMAIN valid_peaks :
            /\ 10 * valid_peaks[i] >= 2 * sampling_rate
            /\ 10 * (Len(filtered_signal) - valid_peaks[i]) >= 2 * sampling_rate

\* C7: peaks were accepted, the first of them exactly at the margin
C7_Witness ==
    /\ Ran("filter")
    /\ Len(valid_peaks) >= 2
    /\ 10 * valid_peaks[1] = 2 * sampling_rate

\* detect_r_peaks has its candidate peaks: the strategy that is set is the
\* one whose result was accepted
DetectionDone ==
    pc \in {"filter", "extract", "validate", "normalize", "classify", "done"}
        \/ Ran("filter")

\* C3, as stated: an earlier strategy's result (the external detector's, the
\* primary or the relaxed heuristic's) is accepted only with 3 peaks or more.
C3_EarlierStrategyNeedsThreePeaks ==
    (DetectionDone /\ strategy \in {"wfdb", "scipy1", "scipy2"}) => Len(r_peaks) >= 3

\* the strategies in the order of the code, and what each step may do
C3_StepsInOrder ==
    /\ pc = "wfdb" =>
          \/ pc' = "filter" /\ strategy' = "wfdb"
          \/ pc' = "scipy1" /\ strategy' = "none"
    /\ pc = "scipy1" =>
          /\ strategy' = "scipy1"
          /\ pc' = (IF Len(r_peaks') < 3 THEN "scipy2" ELSE "filter")
    /\ pc = "scipy2" =>
          /\ strategy' = "scipy2"
          /\ pc' = (IF Len(r_peaks') < 3 THEN "scipy3" ELSE "filter")
    /\ pc = "scipy3" =>
          /\ strategy' = "scipy3"
          /\ pc' = "filter"
    /\ pc' \in {"wfdb", "scipy1", "scipy2", "scipy3"} =>
          pc \in {"preprocess", "wfdb", "scipy1", "scipy2"}

\* C3, amended: the external detector is tried first and its result is
\* accepted whenever the call returns, whatever the number of its peaks; only
\* when it raises are the heuristics tried, primary, relaxed, without height,
\* each one moving on exactly when it yields fewer than 3 peaks; the primary
\* and the relaxed result are accepted only with 3 peaks or more, the last
\* one with any number.
C3_HeuristicsNeedThreePeaks ==
    /\ []((DetectionDone /\ strategy \in {"scipy1", "scipy2"}) => Len(r_peaks) >= 3)
    /\ [](DetectionDone => strategy \in {"wfdb", "scipy1", "scipy2", "scipy3"})
    /\ [][C3_StepsInOrder]_vars

\* C3: the primary heuristic had too few peaks, the relaxed one enough
C3_Witness ==
    /\ pc = "filter"
    /\ strategy = "scipy2"
    /\ stages = <<"read", "preprocess", "wfdb", "scipy1", "scipy2">>
    /\ Len(r_peaks) >= 3

\* the failures of the three stages
NoPeaksError == "No valid R-peaks found after boundary filtering"

NoSegmentsError ==
    "No valid heartbeat segments extracted. R-peaks may be too close to signal boundaries."

NoValidSegmentsError == "No valid heartbeat segments after quality validation."

\* the request failed in `stage` with `failure`: the stage is the last one
\* that ran, the classifier was not called and nothing was returned
AbortedIn(stage, failure) ==
    /\ pc = "failed"
    /\ error = failure
    /\ stages[Len(stages)] = stage
    /\ heartbeat_segments = <<>>
    /\ calls = <<>>
    /\ all_predictions = <<>>
    /\ result = NoResult

\* C5: an empty result of the boundary filter, of the extraction or of the
\* validation aborts the request with that stage's failure; no later stage
\* runs, the classifier is never called on an empty batch, and no diagnosis
\* is returned for a request that failed.
C5_EmptinessAbortsTheRequest ==
    /\ (Ran("filter") /\ valid_peaks = <<>>) =>
          AbortedIn("filter", NoPeaksError) /\ raw_segments = <<>>
    /\ (Ran("extract") /\ raw_segments = <<>>) =>
          AbortedIn("extract", NoSegmentsError) /\ validated_segments = <<>>
    /\ (Ran("validate") /\ validated_segments = <<>>) =>
          AbortedIn("validate", NoValidSegmentsError)
    /\ \A k \in DOMAIN calls : calls[k] > 0
    /\ pc = "failed" => result = NoResult
    /\ pc = "done" => result.total_heartbeats > 0

\* C5: the validation rejected every extracted segment
C5_Witness ==
    /\ Ran("validate")
    /\ raw_segments # <<>>
    /\ validated_segments = <<>>
    /\ pc = "failed"

\* the distance between neighbours of valid_peaks is at least tenths/10 of
\* the sampling rate, and the peaks increase strictly
PeaksSpaced(tenths) ==
    \A i \in 1..(Len(valid_peaks) - 1) :
        /\ valid_peaks[i] < valid_peaks[i + 1]
        /\ 10 * (valid_peaks[i + 1] - valid_peaks[i]) >= tenths * sampling_rate

\* C8, as stated: accepted peaks increase strictly and are at least the
\* threshold of their strategy apart (0.6 x rate for the primary heuristic,
\* 0.4 x rate otherwise), the external detector's peaks included.
C8_PeaksSpacedWhateverTheDetector ==
    Ran("filter") => PeaksSpaced(IF strategy = "scipy1" THEN 6 ELSE 4)

\* C8, amended: the peaks accepted from the heuristics increase strictly and
\* are at least 0.6 x rate (primary) or 0.4 x rate (relaxed, without height)
\* apart; to the external detector's peaks the code applies no minimum
\* distance.
C8_HeuristicPeaksSpaced ==
    (Ran("filter") /\ strategy # "wfdb") =>
        PeaksSpaced(IF strategy = "scipy1" THEN 6 ELSE 4)

\* C8: the primary heuristic's peaks, two of them accepted
C8_Witness ==
    /\ Ran("filter")
    /\ strategy = "scipy1"
    /\ Len(valid_peaks) >= 2

\* a finite sample
Finite(x) == 0 - AmpMax * 10 <= x /\ x <= AmpMax * 10

\* the standard deviation of finite samples is StdMin or more.  n^2 times
\* the variance is the sum of the squared differences of all pairs; one pair
\* 2n * StdMin or more apart is enough for it.
StdAtLeastMin(segment) ==
    LET n == Len(segment)
        pairs == {q \in (1..n) \X (1..n) : q[1] < q[2]}
        Diff(q) == Abs(segment[q[1]] - segment[q[2]])
        sq == [i \in 1..n, j \in 1..n |->
                  IF i < j THEN Diff(<<i, j>>) * Diff(<<i, j>>) ELSE 0]
    IN  \/ \E q \in pairs : Diff(q) >= 2 * n * StdMin
        \/ SeqSum([k \in 1..(n * n) |-> sq[((k - 1) \div n) + 1, ((k - 1) % n) + 1]])
              >= n * n * StdMin * StdMin

\* the acceptance rule of C9 for the expected length segment_length
C9_Accepted(segment) ==
    /\ Len(segment) = segment_length
    /\ \A i \in DOMAIN segment : Finite(segment[i])
    /\ StdAtLeastMin(segment)
    /\ \A i \in DOMAIN segment : Abs(segment[i]) <= AmpMax

\* C9: validate_segments returns exactly the segments of its input that have
\* the expected length, only finite samples, a standard deviation of 1e-6 or
\* more and no sample above 100 in absolute value, unchanged and in their
\* order.
C9_ValidatorKeepsExactlyTheAccepted ==
    Ran("validate") => validated_segments = SelectSeq(raw_segments, C9_Accepted)

\* C9: of two segments the first was rejected and the second accepted, its
\* standard deviation being exactly the threshold
C9_Witness ==
    /\ Ran("validate")
    /\ Len(raw_segments) = 2
    /\ validated_segments = <<raw_segments[2]>>
    /\ raw_segments[2] = <<0, 2>>
    /\ raw_segments[1] # raw_segments[2]

\* ceil(n / d)
CeilDiv(n, d) == (n + d - 1) \div d

\* C6: the predictions of N > 0 rows are made in ceil(N / B) calls of at most
\* B rows, all but the last of exactly B rows (100, 100, 37 for 237 rows),
\* and the i-th of the N assembled predictions is the one of the i-th row.
C6_BatchesCoverRowsInOrder ==
    pc = "done" =>
        LET N == Len(heartbeat_segments)
        IN  /\ Len(calls) = CeilDiv(N, batch_size)
            /\ \A k \in DOMAIN calls : calls[k] >= 1 /\ calls[k] <= batch_size
            /\ \A k \in 1..(Len(calls) - 1) : calls[k] = batch_size
            /\ N = 237 => calls = <<100, 100, 37>>
            /\ Len(all_predictions) = N
            /\ Len(all_confidences) = N
            /\ \A i \in 1..N :
                  /\ all_predictions[i] = PredictClass(model, heartbeat_segments[i])
                  /\ all_confidences[i] = PredictConf(model, heartbeat_segments[i])

\* C6: 237 rows were classified in three calls
C6_Witness ==
    /\ pc = "done"
    /\ Len(heartbeat_segments) = 237
    /\ calls = <<100, 100, 37>>

\* the classes with the most votes
TopClasses ==
    {c \in 0..(NumClasses - 1) :
        /\ VoteCount(all_predictions, c) > 0
        /\ \A d \in 0..(NumClasses - 1) :
              VoteCount(all_predictions, d) <= VoteCount(all_predictions, c)}

\* C2, as stated: the diagnosis is the class with the most votes and, among
\* several such classes, the one of the lowest index, in whatever order the
\* predictions arrive.
C2_TieGoesToLowestIndex ==
    pc = "done" =>
        \E c \in TopClasses :
            /\ \A d \in TopClasses : c <= d
            /\ result.predicted_diagnosis = class_mapping[c]

\* the class the diagnosis names
ReportedClass ==
    CHOOSE c \in 0..(NumClasses - 1) : class_mapping[c] = result.predicted_diagnosis

\* the indices of the segments whose prediction is class c
SegmentsOf(c) == {i \in DOMAIN all_predictions : all_predictions[i] = c}

\* the sum of the confidences of the segments of I
RECURSIVE ConfidenceSum(_)
ConfidenceSum(I) ==
    IF I = {} THEN 0
    ELSE LET i == CHOOSE i \in I : TRUE
         IN  all_confidences[i] + ConfidenceSum(I \ {i})

\* v (in units of 1e-4) is the mean of the confidences of the segments of I
MeanIs(v, I) == 100 * v * Cardinality(I) = ConfidenceSum(I)

\* v (in units of 1e-4) is the multiple of 1e-4 nearest to that mean, the
\* even one of two equally near
RoundedMeanIs(v, I) ==
    LET off == Abs(100 * v * Cardinality(I) - ConfidenceSum(I))
    IN  /\ 2 * off <= 100 * Cardinality(I)
        /\ 2 * off = 100 * Cardinality(I) => v % 2 = 0

\* all segments vote for one class: it has 100.00 percent, and the overall
\* confidence is its average confidence
UnanimousVote ==
    (\A i \in DOMAIN all_predictions : all_predictions[i] = ReportedClass) =>
        LET entry == result.segment_distribution[result.predicted_diagnosis]
        IN  /\ DOMAIN result.segment_distribution = {result.predicted_diagnosis}
            /\ entry.percentage = 10000
            /\ entry.avg_confidence = result.overall_confidence

\* C10, as stated: the overall confidence is the mean of the confidences of
\* exactly the segments of the majority class.
C10_ConfidenceIsTheMean ==
    pc = "done" =>
        /\ MeanIs(result.overall_confidence, SegmentsOf(ReportedClass))
        /\ UnanimousVote

\* C10, amended: the overall confidence is the mean of the confidences of
\* exactly the segments of the reported class, rounded to 4 decimals; after
\* a unanimous vote that class has 100.00 percent and the overall confidence
\* is its (equally rounded) average confidence.
C10_ConfidenceIsTheRoundedMean ==
    pc = "done" =>
        /\ RoundedMeanIs(result.overall_confidence, SegmentsOf(ReportedClass))
        /\ result.majority_vote_count = Cardinality(SegmentsOf(ReportedClass))
        /\ UnanimousVote

\* C10: two classes have votes, and the mean of the reported class's
\* confidences is no multiple of 1e-4
C10_Witness ==
    /\ pc = "done"
    /\ Cardinality({all_predictions[i] : i \in DOMAIN all_predictions}) = 2
    /\ Cardinality(SegmentsOf(ReportedClass)) = 2
    /\ ~MeanIs(result.overall_confidence, SegmentsOf(ReportedClass))

\* the sum of one field over the entries `names` of a distribution
RECURSIVE FieldSum(_, _, _)
FieldSum(dist, names, field) ==
    IF names = {} THEN 0
    ELSE LET name == CHOOSE name \in names : TRUE
         IN  dist[name][field] + FieldSum(dist, names \ {name}, field)

\* C11: the distribution lists exactly the classes with a vote; their
\* segment counts sum to the number of segments; every percentage is
\* 100 x count / total rounded to 2 decimals (at most 0.005 off), and the
\* percentages sum to 100 within 0.005 per listed class.
C11_PercentagesSumToHundred ==
    pc = "done" =>
        LET dist == result.segment_distribution
            total == Len(all_predictions)
            voted == {c \in 0..(NumClasses - 1) : VoteCount(all_predictions, c) > 0}
        IN  /\ total > 0
            /\ DOMAIN dist = {class_mapping[c] : c \in voted}
            /\ \A c \in voted :
                  /\ dist[class_mapping[c]].segment_count = Cardinality(SegmentsOf(c))
                  /\ 2 * Abs(dist[class_mapping[c]].percentage * total
                                - 10000 * Cardinality(SegmentsOf(c))) <= total
            /\ FieldSum(dist, DOMAIN dist, "segment_count") = total
            /\ result.total_heartbeats = total
            /\ 2 * Abs(FieldSum(dist, DOMAIN dist, "percentage") - 10000)
                  <= Cardinality(DOMAIN dist)

\* C11: 32 votes for three classes, two of the percentages lie halfway
\* between two multiples of 0.01, and the percentages do not sum to 100.00
C11_Witness ==
    /\ pc = "done"
    /\ Len(all_predictions) = 32
    /\ Cardinality(DOMAIN result.segment_distribution) = 3
    /\ FieldSum(result.segment_distribution, DOMAIN result.segment_distribution,
                "percentage") # 10000

\* the failure of preprocess_ecg on a signal too short for the filter
FilterError == "filtfilt: the input is not longer than padlen"

\* the signal has at least one sample and fewer than 2 x 0.2 x rate + 1
ShortSignal ==
    /\ continuous_samples > 0
    /\ 5 * continuous_samples < 2 * sampling_rate + 5

\* C13, as stated: a request on a signal shorter than 2 x margin + 1 samples
\* fails with NoPeaksError, after the boundary filter has left no peak.
C13_ShortSignalFailsWithNoPeaks ==
    (ShortSignal /\ pc = "failed") => AbortedIn("filter", NoPeaksError)

\* C13, amended: a signal of more than 27 samples (the padding of the
\* 4th-order zero-phase filter) and fewer than 2 x margin + 1 passes the
\* filter, has no peak left whatever candidates the strategies return, and
\* fails with NoPeaksError; a signal of 27 samples or fewer fails before,
\* in the preprocessing, with the filter's failure.  Neither gets as far as
\* the extraction.
C13_ShortSignalFailsInFilterOrWithNoPeaks ==
    ShortSignal =>
        /\ valid_peaks = <<>>
        /\ raw_segments = <<>>
        /\ pc \in {"preprocess", "wfdb", "scipy1", "scipy2", "scipy3", "filter", "failed"}
        /\ pc = "failed" =>
              IF continuous_samples > 3 * (2 * 4 + 1)
              THEN AbortedIn("filter", NoPeaksError)
              ELSE AbortedIn("preprocess", FilterError) /\ ~Ran("filter")
        /\ Ran("wfdb") => continuous_samples > 3 * (2 * 4 + 1)

\* C13: a signal of 144 samples, two candidate peaks, none of them accepted
C13_Witness ==
    /\ continuous_samples = 144
    /\ Len(r_peaks) >= 2
    /\ Ran("filter")
    /\ pc = "failed"
    /\ error = NoPeaksError

\* C14: validate_segments is idempotent.  Called on its own result, with the
\* same expected length, it returns that result unchanged, in content and in
\* order.
C14_ValidatingTwiceChangesNothing ==
    stages = <<"validate", "validate">> =>
        /\ validated_segments = raw_segments
        /\ pc = (IF raw_segments = <<>> THEN "failed" ELSE "normalize")

\* C14: the second call was made on two different valid segments
C14_Witness ==
    /\ stages = <<"validate", "validate">>
    /\ Len(raw_segments) = 2
    /\ raw_segments[1] # raw_segments[2]
    /\ validated_segments = raw_segments

\* what process_ecg_file returns for these validated segments when it runs
\* alone, with the artifacts as load_models() left them
SoloResult(input) ==
    LET rows == ScalerTransform(input)
    IN  Diagnosis([k \in DOMAIN rows |-> PredictClass(LoadedModel, rows[k])],
                  [k \in DOMAIN rows |-> PredictConf(LoadedModel, rows[k])], 0)

\* a step of a request changes the local variables of one thread at most
OneThreadSteps ==
    \A t, u \in Threads :
        (requests'[t] # requests[t] /\ requests'[u] # requests[u]) => t = u

\* C12: the classifier, the scaler and the class map are loaded exactly once
\* before the first request is served; while the server serves, no step of
\* any request changes them, in any interleaving; a step touches the local
\* variables of one request only, and the result of a request is the one it
\* has when it runs alone.
C12_ArtifactsLoadedOnceNeverWritten ==
    /\ []((server = "serving" \/ \E t \in Threads : requests[t].at # "idle") =>
            /\ server = "serving"
            /\ load_count = 1
            /\ model = LoadedModel
            /\ scaler = LoadedScaler
            /\ class_map = class_mapping)
    /\ [][server = "serving" =>
            /\ UNCHANGED <<model, scaler, class_map, load_count>>
            /\ OneThreadSteps]_vars
    /\ [](\A t \in Threads :
            requests[t].at = "done" =>
                requests[t].result = SoloResult(requests[t].input))

\* C12: one request has its result while another one, on other segments, is
\* between two calls of the classifier
C12_Witness ==
    /\ requests[1].at = "done"
    /\ requests[1].result = SoloResult(requests[1].input)
    /\ requests[2].at = "predict"
    /\ requests[2].i = batch_size
    /\ Len(requests[2].rows) > batch_size
    /\ requests[1].input # requests[2].input

\* safe_file_cleanup has been called on the k-th temporary file and has
\* returned
CleanedUp(k) == k <= Len(cleanups) /\ cleanups[k].path = created[k]

\* C15: in predict_ecg and predict_ecg_batch safe_file_cleanup is called on
\* every temporary file that was created, before the handler returns (in
\* the batch handler before the next file is taken up), whether the file was
\* processed, could not be saved, or process_ecg_file raised.  It is called
\* on nothing else, and once per file.
C15_EveryTempFileIsCleanedUp ==
    /\ Len(cleanups) <= Len(created)
    /\ \A k \in DOMAIN cleanups : cleanups[k].path = created[k]
    /\ hpc \in {"returned", "loop", "cleaned"} =>
          \A k \in DOMAIN created : CleanedUp(k)
    /\ hpc \in {"save", "process", "cleanup"} =>
          /\ created # <<>>
          /\ filepath = created[Len(created)]
          /\ \A k \in 1..(Len(created) - 1) : CleanedUp(k)

\* C15: the batch handler has returned; the first file could not be
\* processed or saved and its temporary file is still there after five
\* failed attempts, the second one gave a diagnosis and its file is gone
C15_Witness ==
    /\ endpoint = "predict_batch"
    /\ hpc = "returned"
    /\ Len(created) = 2
    /\ Len(cleanups) = 2
    /\ ~cleanups[1].returned
    /\ cleanups[2].returned
    /\ disk = {created[1]}
    /\ ~results[1].preprocessing_success
    /\ results[2].preprocessing_success

\* the value the last safe_file_cleanup call returned
CleanupResult == cleanups[Len(cleanups)].returned

\* C16: safe_file_cleanup ends after at most max_retries attempts.  It
\* returns True exactly when an attempt, necessarily its last, found the
\* file absent or removed it, every attempt before having raised; it returns
\* False exactly when max_retries attempts were made and all of them raised,
\* and then the file may still be there.  Other files are left alone.
C16_CleanupEndsWithinMaxRetries ==
    /\ [](hpc = "cleanup" =>
            /\ attempt = Len(attempt_log)
            /\ attempt <= max_retries
            /\ \A k \in DOMAIN attempt_log : attempt_log[k] = "raised")
    /\ [](hpc = "cleaned" =>
            LET n == Len(attempt_log)
                Succeeded(k) == attempt_log[k] \in {"absent", "removed"}
            IN  /\ n <= max_retries
                /\ \A k \in 1..(n - 1) : attempt_log[k] = "raised"
                /\ CleanupResult <=> (\E k \in 1..n : Succeeded(k))
                /\ ~CleanupResult <=>
                      (n = max_retries /\ \A k \in 1..n : attempt_log[k] = "raised")
                /\ CleanupResult => filepath \notin disk)
    /\ [][hpc = "cleanup" => disk \ {filepath} = disk' \ {filepath}]_vars
    /\ <>(hpc = "cleaned")

\* C16: three attempts were allowed, all three raised, False was returned
\* and the file is still there
C16_Witness ==
    /\ hpc = "cleaned"
    /\ max_retries = 3
    /\ attempt_log = <<"raised", "raised", "raised">>
    /\ ~CleanupResult
    /\ filepath \in disk

\* the file names of the upload that are not empty, of its first n files
NamedFiles(n) ==
    LET Named(f) == f # <<>>
    IN  SelectSeq(SubSeq(files, 1, n), Named)

\* the entry of batch_results is the one of the file with this name
EntryOf(entry, filename) ==
    /\ entry.filename \in {filename, secure_filename(filename)}
    /\ IF entry.preprocessing_success
       THEN /\ allowed_file(filename)
            /\ "predicted_diagnosis" \in DOMAIN entry
            /\ "error" \notin DOMAIN entry
       ELSE /\ "error" \in DOMAIN entry
            /\ "predicted_diagnosis" \notin DOMAIN entry

\* C17: in predict_ecg_batch a file that fails does not end the batch.  Every
\* uploaded file with a name that is not empty has exactly one entry in
\* batch_results, in upload order, a diagnosis or an error entry with
\* preprocessing_success false; the loop takes up every file, whatever
\* happened to the ones before; successful_predictions is the number of
\* entries with preprocessing_success true and at most total_files.
C17_FailedFileDoesNotEndTheBatch ==
    endpoint = "predict_batch" =>
        /\ hpc = "loop" =>
              /\ Len(results) = Len(NamedFiles(file_i - 1))
              /\ response.status = 0
        /\ (hpc = "returned" /\ NamedFiles(Len(files)) # <<>>) =>
              LET named == NamedFiles(Len(files))
                  entries == response.batch_results
              IN  /\ response.status = 200
                  /\ file_i = Len(files) + 1
                  /\ Len(entries) = Len(named)
                  /\ \A k \in DOMAIN entries : EntryOf(entries[k], named[k])
                  /\ response.total_files = Len(files)
                  /\ response.successful_predictions =
                        Cardinality({k \in DOMAIN entries :
                                        entries[k].preprocessing_success})
                  /\ response.successful_predictions <= response.total_files

\* C17: process_ecg_file raised on the first file and the second file, with
\* another name, has its diagnosis
C17_Witness ==
    /\ endpoint = "predict_batch"
    /\ hpc = "returned"
    /\ response.status = 200
    /\ Len(response.batch_results) = 2
    /\ Len(created) = 2
    /\ ~response.batch_results[1].preprocessing_success
    /\ response.batch_results[1].error = "No valid ECG column found"
    /\ response.batch_results[2].preprocessing_success
    /\ response.batch_results[2].filename # files[2]
    /\ response.successful_predictions = 1

====
